---------------------------- MODULE Spec2Model ----------------------------
(***************************************************************************)
(* A model of the Tailorshop simulation (brand-d/pytailorshop):            *)
(*   ts_types.py    Controllable_Variables (the actions), Tailorshop_State *)
(*   tailorshop.py  Tailorshop (the engine)                                *)
(*   main.py / main_gui.py   the drivers that call the engine              *)
(*                                                                         *)
(* Python objects live in two heaps (aheap for Controllable_Variables,     *)
(* sheap for Tailorshop_State); a variable of the program holds an address *)
(* (0 is None), so that a copy and an alias are different things.          *)
(*                                                                         *)
(* Numbers.  The controllable variables are integers.  The state holds     *)
(* reals; the model holds them in thousandths (Scale), every division      *)
(* rounding down to the next thousandth.  round() is Python's: to the      *)
(* nearest integer, a tie to the even one.                                 *)
(***************************************************************************)
EXTENDS Integers, Sequences, FiniteSets, TLC

VARIABLES
    aheap,          \* address -> Controllable_Variables object (or NoObj)
    sheap,          \* address -> Tailorshop_State object (or NoObj)
    last_actions,   \* Tailorshop.last_actions   (address in aheap)
    current_state,  \* Tailorshop.current_state  (address in sheap)
    actions,        \* the driver's variable `actions` (address in aheap)
    what_if,        \* the driver's result of its last calculate_step call
    built,          \* how the object at `actions` was constructed
    op,             \* the operation that was called last
    arg,            \* the value handed to the setter that was called last
    raised,         \* whether the last operation raised an exception
    finished,       \* what the last is_finished() call returned
    steps,          \* number of do_next_step calls that returned normally
    calls,          \* number of setter calls made by the driver
    twin            \* a second Tailorshop the driver steps along (or NoObj)

vars == <<aheap, sheap, last_actions, current_state, actions, what_if,
          built, op, arg, raised, finished, steps, calls, twin>>

-----------------------------------------------------------------------------
(* Bounds of the model *)

\* Setter calls a driver makes on a bare Controllable_Variables object.
MaxSetterCalls == 2

\* Setter calls the driver of a simulation run makes over the whole run.
MaxChanges == 1

\* Setter calls a driver makes on the actions it exchanges with an engine.
MaxCopyCalls == 2

\* Cells of each heap: the live objects plus the one being constructed.
MaxObjects == 3

Addr == 1..MaxObjects
None == 0
NoObj == [free |-> TRUE]

-----------------------------------------------------------------------------
(* ts_types.py: helpers *)

Min(a, b) == IF a <= b THEN a ELSE b
Max(a, b) == IF a >= b THEN a ELSE b

non_negative(value) == Max(value, 0)

clamp(value, min_val, max_val) == Max(Min(value, max_val), min_val)

step_and_clamp(value, min_val, max_val, stepsize, use_steps) ==
    LET result == clamp(value, min_val, max_val)
    IN  IF use_steps THEN (result \div stepsize) * stepsize ELSE result

-----------------------------------------------------------------------------
(* ts_types.py: Controllable_Variables *)

set_workers50(self, value) ==
    [self EXCEPT !.workers50 = step_and_clamp(value, 0, 20, 1, self.use_steps)]

set_workers100(self, value) ==
    [self EXCEPT !.workers100 = step_and_clamp(value, 0, 20, 1, self.use_steps)]

set_workers_salary_no_offset(self, value) ==
    [self EXCEPT !.workers_salary =
        step_and_clamp(value, 0, 5000, 100, self.use_steps)]

set_workers_salary(self, value) ==
    [self EXCEPT !.workers_salary =
        step_and_clamp(value, 0, 5000, 100, self.use_steps)
            + self.worker_salary_offset]

\* a setter that takes its offset from the value it is given, as __init__ does
set_worker_benefits_rephased(self, value) ==
    LET stepped == step_and_clamp(value, 0, 500, 10, self.use_steps)
        offset  == clamp(value, 0, 500) - stepped
    IN  [self EXCEPT !.worker_benefits = stepped + offset,
                     !.worker_benefits_offset = offset]

set_worker_benefits(self, value) ==
    [self EXCEPT !.worker_benefits =
        step_and_clamp(value, 0, 500, 10, self.use_steps)
            + self.worker_benefits_offset]

set_shirt_price(self, value) ==
    [self EXCEPT !.shirt_price =
        step_and_clamp(value, 10, 100, 2, self.use_steps)
            + self.shirt_price_offset]

set_outlets(self, value) ==
    [self EXCEPT !.outlets = step_and_clamp(value, 0, 10, 1, self.use_steps)]

\* A Python value given as a location: an int, a float (in thousandths) or
\* a str
PyInt(n)   == [type |-> "int",   num |-> n, name |-> ""]
PyFloat(x) == [type |-> "float", num |-> x, name |-> ""]
PyStr(s)   == [type |-> "str",   num |-> 0, name |-> s]

\* str.lower(), for the names of the locations in the spellings a caller
\* uses; any other string of the model is in lower case already
lower(s) ==
    CASE s \in {"Suburb", "SUBURB"}                        -> "suburb"
      [] s \in {"City", "CITY"}                            -> "city"
      [] s \in {"Inner City", "INNER CITY", "inner City"}  -> "inner city"
      [] OTHER                                             -> s

\* line 508: ["suburb", "city", "inner city"]
location_names == <<"suburb", "city", "inner city">>

\* set_location raises: a value that is no int has no lower() unless it is
\* a str (AttributeError), and list.index raises for a str that is not in
\* the list (ValueError)
set_location_raises(location) ==
    /\ location.type # "int"
    /\ \/ location.type # "str"
       \/ \A i \in DOMAIN location_names :
                location_names[i] # lower(location.name)

\* set_location, when it does not raise
set_location(self, location) ==
    IF location.type = "int"
    THEN [self EXCEPT !.location =
                step_and_clamp(location.num, 0, 2, 1, self.use_steps)]
    ELSE LET idx == (CHOOSE i \in DOMAIN location_names :
                        location_names[i] = lower(location.name)) - 1
         IN  [self EXCEPT !.location =
                    step_and_clamp(idx, 0, 2, 1, self.use_steps)]

set_material_order(self, value) ==
    [self EXCEPT !.material_order =
        step_and_clamp(value, 0, 5000, 50, self.use_steps)
            + self.material_order_offset]

set_machines50(self, value) ==
    [self EXCEPT !.machines50 = step_and_clamp(value, 0, 20, 1, self.use_steps)]

set_machines100(self, value) ==
    [self EXCEPT !.machines100 = step_and_clamp(value, 0, 20, 1, self.use_steps)]

set_machines_maintenance(self, value) ==
    [self EXCEPT !.machines_maintenance =
        step_and_clamp(value, 0, 5000, 100, self.use_steps)
            + self.machines_maintenance_offset]

set_advertising(self, value) ==
    [self EXCEPT !.advertising =
        step_and_clamp(value, 0, 10000, 100, self.use_steps)
            + self.advertising_offset]

\* The object before __init__ has set anything but use_steps.
Blank(use_steps) ==
    [workers50 |-> 0, workers100 |-> 0, workers_salary |-> 0,
     worker_benefits |-> 0, shirt_price |-> 0, outlets |-> 0, location |-> 0,
     material_order |-> 0, machines50 |-> 0, machines100 |-> 0,
     machines_maintenance |-> 0, advertising |-> 0, use_steps |-> use_steps,
     worker_salary_offset |-> 0, worker_benefits_offset |-> 0,
     shirt_price_offset |-> 0, material_order_offset |-> 0,
     machines_maintenance_offset |-> 0, advertising_offset |-> 0]

\* Controllable_Variables.__init__; p holds the constructor's arguments
Controllable_Variables(p) ==
    LET u  == p.use_steps
        s1 == set_workers50(Blank(u), p.workers50)
        s2 == set_workers100(s1, p.workers100)
        s3 == set_outlets(s2, p.outlets)
        s4 == set_location(s3, PyInt(p.location))
        s5 == set_machines50(s4, p.machines50)
        s6 == set_machines100(s5, p.machines100)
        s7 == set_workers_salary(
                [s6 EXCEPT !.worker_salary_offset = p.workers_salary
                    - step_and_clamp(p.workers_salary, 0, 5000, 100, u)],
                p.workers_salary)
        s8 == set_worker_benefits(
                [s7 EXCEPT !.worker_benefits_offset = p.worker_benefits
                    - step_and_clamp(p.worker_benefits, 0, 500, 10, u)],
                p.worker_benefits)
        s9 == set_shirt_price(
                [s8 EXCEPT !.shirt_price_offset = p.shirt_price
                    - step_and_clamp(p.shirt_price, 0, 100, 2, u)],
                p.shirt_price)
        s10 == set_material_order(
                [s9 EXCEPT !.material_order_offset = p.material_order
                    - step_and_clamp(p.material_order, 0, 5000, 50, u)],
                p.material_order)
        s11 == set_machines_maintenance(
                [s10 EXCEPT !.machines_maintenance_offset = p.machines_maintenance
                    - step_and_clamp(p.machines_maintenance, 0, 5000, 100, u)],
                p.machines_maintenance)
    IN  set_advertising(
                [s11 EXCEPT !.advertising_offset = p.advertising
                    - step_and_clamp(p.advertising, 0, 10000, 100, u)],
                p.advertising)

\* The constructor's default arguments
Defaults ==
    [workers50 |-> 8, workers100 |-> 0, workers_salary |-> 1080,
     worker_benefits |-> 50, shirt_price |-> 52, outlets |-> 1, location |-> 1,
     material_order |-> 0, machines50 |-> 10, machines100 |-> 0,
     machines_maintenance |-> 1200, advertising |-> 2800, use_steps |-> TRUE]

\* The arguments Controllable_Variables.__copy__ hands to the constructor
CopyArgs(self) == [f \in DOMAIN Defaults |-> self[f]]

\* Controllable_Variables.__copy__
CV_copy(self) == Controllable_Variables(CopyArgs(self))

\* The six offsets an object holds
Offsets(self) ==
    [workers_salary |-> self.worker_salary_offset,
     worker_benefits |-> self.worker_benefits_offset,
     shirt_price |-> self.shirt_price_offset,
     material_order |-> self.material_order_offset,
     machines_maintenance |-> self.machines_maintenance_offset,
     advertising |-> self.advertising_offset]

Fields == (DOMAIN Defaults) \ {"use_steps"}
OffsetFields == DOMAIN Offsets(Blank(TRUE))

\* Calling the setter of field f on the object
CallSetter(self, f, value) ==
    CASE f = "workers50"            -> set_workers50(self, value)
      [] f = "workers100"           -> set_workers100(self, value)
      [] f = "workers_salary"       -> set_workers_salary(self, value)
      [] f = "worker_benefits"      -> set_worker_benefits(self, value)
      [] f = "shirt_price"          -> set_shirt_price(self, value)
      [] f = "outlets"              -> set_outlets(self, value)
      [] f = "location"             -> set_location(self, PyInt(value))
      [] f = "material_order"       -> set_material_order(self, value)
      [] f = "machines50"           -> set_machines50(self, value)
      [] f = "machines100"          -> set_machines100(self, value)
      [] f = "machines_maintenance" -> set_machines_maintenance(self, value)
      [] f = "advertising"          -> set_advertising(self, value)

-----------------------------------------------------------------------------
(* Fixed-point arithmetic: a real x is held as the integer floor(x * Scale) *)

Scale == 10 ^ 3

\* floor(a * b / c) for c > 0, without forming a * b
MulDiv(a, b, c) == (a \div c) * b + ((a % c) * b) \div c

\* floor(Scale * a / b) for b # 0, by long division
FixDiv(a, b) ==
    LET n  == IF b > 0 THEN a ELSE -a
        d  == IF b > 0 THEN b ELSE -b
        r1 == (n % d) * 10
        r2 == (r1 % d) * 10
        r3 == (r2 % d) * 10
    IN  (n \div d) * Scale + (r1 \div d) * 100 + (r2 \div d) * 10 + (r3 \div d)

\* Python's round(): the nearest integer, a tie to the even one
round(x) ==
    LET q == x \div Scale
        r == x % Scale
    IN  IF 2 * r < Scale \/ (2 * r = Scale /\ q % 2 = 0)
        THEN q * Scale
        ELSE (q + 1) * Scale

RECURSIVE SqrtSearch(_, _, _)
SqrtSearch(n, lo, hi) ==
    IF lo >= hi THEN lo
    ELSE LET mid == (lo + hi + 1) \div 2
         IN  IF mid * mid <= n THEN SqrtSearch(n, mid, hi)
                               ELSE SqrtSearch(n, lo, mid - 1)

\* np.sqrt of a real x >= 0 held in thousandths
sqrt(x) == SqrtSearch(x * Scale, 0, 40000)

abs(x) == IF x < 0 THEN -x ELSE x

\* seq[i] of Python: a negative index counts from the end
PyIndex(seq, i) == IF i >= 0 THEN seq[i + 1] ELSE seq[Len(seq) + i + 1]

-----------------------------------------------------------------------------
(* ts_types.py: Tailorshop_State.  All fields but turn are in thousandths. *)

get_shown_damage(self) == 2 * (50 * Scale - self.machine_capacity)

get_shown_worker_satisfaction(self) ==
    round(MulDiv(100 * self.worker_satisfaction, 10, 17))

\* Tailorshop_State.__init__; p holds the constructor's arguments
Tailorshop_State(p) ==
    LET self == [bank_account        |-> p.bank_account,
                 shirt_sales         |-> non_negative(p.shirt_sales),
                 material_price      |-> non_negative(p.material_price),
                 shirt_stock         |-> non_negative(p.shirt_stock),
                 worker_satisfaction |-> non_negative(p.worker_satisfaction),
                 production_idle     |-> clamp(p.production_idle, 0, 100 * Scale),
                 company_value       |-> p.company_value,
                 customer_interest   |-> non_negative(p.customer_interest),
                 material_stock      |-> non_negative(p.material_stock),
                 machine_capacity    |-> clamp(p.machine_capacity, 0, 50 * Scale),
                 turn                |-> non_negative(p.turn)]
    IN  [f \in DOMAIN self \cup {"damage", "percent_worker_satisfaction"} |->
            CASE f = "damage" -> get_shown_damage(self)
              [] f = "percent_worker_satisfaction" ->
                    get_shown_worker_satisfaction(self)
              [] OTHER -> self[f]]

\* The constructor's default arguments
StateDefaults ==
    [bank_account |-> 165775 * Scale, shirt_sales |-> 407 * Scale,
     material_price |-> 4 * Scale, shirt_stock |-> 81 * Scale,
     worker_satisfaction |-> 980, production_idle |-> 0,
     company_value |-> 250691 * Scale, customer_interest |-> 767 * Scale,
     material_stock |-> 16 * Scale, machine_capacity |-> 47 * Scale,
     turn |-> 1]

from_ts_state(ts_state) ==
    Tailorshop_State([f \in DOMAIN StateDefaults |-> ts_state[f]])

\* round_and_update that rounds production_idle as well
round_and_update_idle(self) ==
    LET r == [self EXCEPT
                !.bank_account      = round(self.bank_account),
                !.shirt_sales       = round(self.shirt_sales),
                !.material_price    = round(self.material_price),
                !.shirt_stock       = round(self.shirt_stock),
                !.company_value     = round(self.company_value),
                !.customer_interest = round(self.customer_interest),
                !.material_stock    = round(self.material_stock),
                !.machine_capacity  = round(self.machine_capacity),
                !.production_idle   = round(self.production_idle)]
    IN  [r EXCEPT !.damage = get_shown_damage(r),
                  !.percent_worker_satisfaction =
                        get_shown_worker_satisfaction(r)]

round_and_update(self) ==
    LET r == [self EXCEPT
                !.bank_account      = round(self.bank_account),
                !.shirt_sales       = round(self.shirt_sales),
                !.material_price    = round(self.material_price),
                !.shirt_stock       = round(self.shirt_stock),
                !.company_value     = round(self.company_value),
                !.customer_interest = round(self.customer_interest),
                !.material_stock    = round(self.material_stock),
                !.machine_capacity  = round(self.machine_capacity)]
    IN  [r EXCEPT !.damage = get_shown_damage(r),
                  !.percent_worker_satisfaction =
                        get_shown_worker_satisfaction(r)]

-----------------------------------------------------------------------------
(* tailorshop.py: Tailorshop, its constants and its noise tables *)

positive_interest(x) == MulDiv(x, 25, 10000)     \* x * 0.0025
negative_interest(x) == MulDiv(x, 66, 10000)     \* x * 0.0066
max_machine_capacity == 50
max_advertising_effect == 900
locations_rents == <<500, 1000, 2000>>
outlet_rent == 500
price_machine50 == 10000
price_machine100 == 20000
price_outlet == 10000

\* The fixed tables (randomize = False), in thousandths
rnd_machines_50 ==
    <<-1680, 396, -1291, -1698, 677, 351, -1572, 1154, -518, 1634, -1334,
      -972, 126, 885>>
rnd_machines_100 ==
    <<-807, 1350, -1756, -2445, -1092, -2662, 262, -2053, 1478, -1773, -1179,
      1613, 648, 1135>>
rnd_customer_interest ==
    <<-23050, 19242, 34448, 19792, -24671, 30507, -4267, 38934, -12883,
      -47065, -13753, -49316, 25205, 30667>>
rnd_material_price ==
    <<8267, 4871, 4853, 5909, 5187, 7099, 6772, 7617, 8023, 2681, 5022, 6297,
      7763, 2510>>

\* 1.25 * 2.7181 ^ (-(p ^ 2) / 4250) for p = 0, 1, ..., 110, in millionths
demand_elasticity ==
    <<1250000, 1249705, 1248824, 1247355, 1245303, 1242669, 1239457, 1235671,
      1231318, 1226403, 1220933, 1214915, 1208359, 1201272, 1193665, 1185548,
      1176933, 1167830, 1158253, 1148214, 1137726, 1126804, 1115462, 1103714,
      1091576, 1079064, 1066194, 1052981, 1039443, 1025596, 1011458, 997045,
      982375, 967466, 952335, 936999, 921477, 905785, 889942, 873965,
      857870, 841676, 825399, 809056, 792664, 776238, 759795, 743351,
      726920, 710518, 694160, 677859, 661629, 645484, 629437, 613500,
      597686, 582005, 566469, 551088, 535872, 520832, 505975, 491311,
      476848, 462593, 448552, 434733, 421142, 407784, 394664, 381786,
      369154, 356773, 344644, 332772, 321157, 309801, 298707, 287875,
      277304, 266996, 256951, 247167, 237644, 228380, 219374, 210624,
      202128, 193883, 185887, 178138, 170630, 163363, 156331, 149532,
      142961, 136614, 130488, 124578, 118880, 113388, 108100, 103010,
      98113, 93405, 88882, 84537, 80367, 76367, 72532>>

\* workers * capacity * satisfaction_effect; nothing is produced without workers
production_capacity_50(acts, ts_state) ==
    LET turn == ts_state.turn
        capacity_m50 == ts_state.machine_capacity
                            + PyIndex(rnd_machines_50, turn - 1)
        workers_m50 == Min(acts.machines50, acts.workers50)
        satisfaction_effect == sqrt(abs(ts_state.worker_satisfaction))
    IN  MulDiv(workers_m50 * capacity_m50, satisfaction_effect, Scale)

production_capacity_100(acts, ts_state) ==
    LET turn == ts_state.turn
        capacity_m100 == (2 * ts_state.machine_capacity)
                            + PyIndex(rnd_machines_100, turn - 1)
        workers_m100 == Min(acts.machines100, acts.workers100)
        satisfaction_effect == sqrt(abs(ts_state.worker_satisfaction))
    IN  MulDiv(workers_m100 * capacity_m100, satisfaction_effect, Scale)

customer_interest(acts, ts_state) ==
    LET advertising_effect == Min((acts.advertising * Scale) \div 5,
                                  max_advertising_effect * Scale)
        outlet_effect == 100 * acts.outlets * Scale
        \* location_factor = 1 + location / 10 = (10 + location) / 10
        random_fluctuation == PyIndex(rnd_customer_interest, ts_state.turn - 1)
    IN  ((advertising_effect + outlet_effect) * (10 + acts.location)) \div 10
            + random_fluctuation

\* the demand follows this turn's advertising, outlets and location
shirts_demand_this_turn(acts, ts_state) ==
    LET base_demand == (customer_interest(acts, ts_state) \div 2) + 280 * Scale
        e == demand_elasticity[abs(acts.shirt_price) + 1]
    IN  (base_demand * (e \div Scale)) \div Scale
            + (base_demand * (e % Scale)) \div (Scale * Scale)

shirts_demand(acts, ts_state) ==
    LET base_demand == (ts_state.customer_interest \div 2) + 280 * Scale
        e == demand_elasticity[abs(acts.shirt_price) + 1]
    IN  (base_demand * (e \div Scale)) \div Scale
            + (base_demand * (e % Scale)) \div (Scale * Scale)

\* an asset is sold at the price it is bought for
trade_at_buying_price(number, buying_price, selling_price) ==
    number * buying_price

trade(number, buying_price, selling_price) ==
    IF number > 0 THEN number * buying_price
                  ELSE number * selling_price

investments_machines_outlets(acts, last, ts_state) ==
    LET machineCondition == ts_state.machine_capacity \div max_machine_capacity
        trade_outlets == trade(acts.outlets - last.outlets,
                               price_outlet * Scale,
                               (8 * price_outlet * Scale) \div 10
                                    - (100 * ts_state.turn) * Scale)
        trade_m50 == trade(acts.machines50 - last.machines50,
                           price_machine50 * Scale,
                           ((8 * price_machine50) \div 10) * machineCondition)
        trade_m100 == trade(acts.machines100 - last.machines100,
                            price_machine100 * Scale,
                            ((8 * price_machine100) \div 10) * machineCondition)
    IN  trade_outlets + trade_m50 + trade_m100

regular_expenses(acts, ts_state) ==
    LET material == acts.material_order * ts_state.material_price
        num_workers == acts.workers50 + acts.workers100
        worker_salary == acts.workers_salary * num_workers
        worker_benefits == acts.worker_benefits * num_workers
        outlets == acts.outlets * outlet_rent
        location == locations_rents[acts.location + 1]
        storage == ts_state.shirt_stock + (ts_state.material_stock \div 2)
    IN  material + storage
            + (worker_salary + worker_benefits + acts.advertising + outlets
                + location + acts.machines_maintenance) * Scale

company_value(acts, ts_state) ==
    LET turn == ts_state.turn
        bank == ts_state.bank_account
        per50 == (price_machine50 \div max_machine_capacity)
        per100 == (price_machine100 \div max_machine_capacity)
        machines_50 == acts.machines50 * ts_state.machine_capacity * per50
        machines_100 == acts.machines100 * ts_state.machine_capacity * per100
        outlets == (acts.outlets * price_outlet - (turn * 100)) * Scale
        material == ts_state.material_stock * 2
        shirts == ts_state.shirt_stock * 20
    IN  bank + machines_50 + machines_100 + outlets + material + shirts

\* Tailorshop._is_finished
\* finished one turn early: the last entry of the tables is never used
is_finished_early(ts_state) ==
    \/ ts_state.turn >= Len(rnd_material_price) - 1
    \/ ts_state.turn >= Len(rnd_customer_interest) - 1
    \/ ts_state.turn >= Len(rnd_machines_100) - 1
    \/ ts_state.turn >= Len(rnd_machines_50) - 1

\* Tailorshop._is_finished
is_finished_state(ts_state) ==
    \/ ts_state.turn >= Len(rnd_material_price)
    \/ ts_state.turn >= Len(rnd_customer_interest)
    \/ ts_state.turn >= Len(rnd_machines_100)
    \/ ts_state.turn >= Len(rnd_machines_50)

\* an engine that never reports the end of the simulation
never_finished(sh, current) == FALSE

\* Tailorshop.is_finished, of the engine whose current state is sh[current]
is_finished(sh, current) == is_finished_state(sh[current])

-----------------------------------------------------------------------------
(* Objects: construction puts an object into a cell no variable refers to *)

NewAddr(live) ==
    CHOOSE a \in Addr : a \notin live /\ \A b \in Addr \ live : a <= b

\* After an operation the objects its variables refer to are kept and all
\* other cells are released.  An address means nothing but identity, so the
\* object of the engine is moved to cell 1 and that of the driver to cell 2
\* (to cell 1 as well when both variables refer to one object).
Settle(heap, engine, driver) ==
    [a \in Addr |->
        IF a = 1 /\ engine # None THEN heap[engine]
        ELSE IF a = 2 /\ driver # None /\ driver # engine THEN heap[driver]
        ELSE NoObj]

SettledEngine(engine) == IF engine = None THEN None ELSE 1

SettledDriver(engine, driver) ==
    IF driver = None THEN None ELSE IF driver = engine THEN 1 ELSE 2

\* x = y instead of x = Tailorshop_State.from_ts_state(y)
alias_state(sh, src, live) == [heap |-> sh, ret |-> src]

\* Tailorshop_State.from_ts_state(sh[src]): a new object
clone_state(sh, src, live) ==
    LET n == NewAddr(live \cup {src})
    IN  [heap |-> [sh EXCEPT ![n] = from_ts_state(sh[src])], ret |-> n]

\* x = y instead of x = copy(y)
alias_actions(ah, src, live) == [heap |-> ah, ret |-> src]

\* copy(ah[src]) of a Controllable_Variables object: a new object
copy_actions(ah, src, live) ==
    LET n == NewAddr(live \cup {src})
    IN  [heap |-> [ah EXCEPT ![n] = CV_copy(ah[src])], ret |-> n]

-----------------------------------------------------------------------------
(* tailorshop.py: Tailorshop.calculate_step                                *)
(* acts, last: the Controllable_Variables objects handed in (only read);   *)
(* ts: the address of the state handed in; sh: the heap of states.         *)
(* Every assignment to new_state is a write to the heap, in the order of   *)
(* the code, and every read of ts_state reads the heap as it then is.      *)

\* (maintenance / (machines + 0.00000001)) * 0.017
maintenance_effect(maintenance, num_of_machines) ==
    IF num_of_machines = 0
    THEN maintenance * 1700000 * Scale
    ELSE (maintenance * 17) \div num_of_machines

\* 0.5 + ((workers_salary - 850) / 550) + (worker_benefits / 800)
satisfaction_of(acts) ==
    Scale \div 2 + ((acts.workers_salary - 850) * Scale) \div 550
                 + (acts.worker_benefits * Scale) \div 800

\* Each part of calculate_step takes c = [heap, new_state, actual_production,
\* sales_revenue]: the heap as the code before it has left it, the address of
\* new_state, and the two locals a later part reads.

\* lines 398-401: the machine capacity
step_machine_capacity(c, acts, ts) ==
    LET num_of_machines == acts.machines50 + acts.machines100
        machine_capacity ==
            MulDiv(c.heap[ts].machine_capacity, 9, 10)
                + maintenance_effect(acts.machines_maintenance, num_of_machines)
    IN  [c EXCEPT !.heap[c.new_state].machine_capacity = machine_capacity]

\* lines 403-405: the worker satisfaction
step_satisfaction(c, acts, ts) ==
    [c EXCEPT !.heap[c.new_state].worker_satisfaction = satisfaction_of(acts)]

produce(c, material_before_production, production_capacity) ==
    LET actual_production == Min(material_before_production, production_capacity)
        production_idle ==
            IF production_capacity # 0
            THEN FixDiv(production_capacity - actual_production,
                        production_capacity)
            ELSE 0
    IN  [c EXCEPT !.heap[c.new_state].production_idle = production_idle,
                  !.heap[c.new_state].material_stock =
                        material_before_production - actual_production,
                  !.actual_production = actual_production]

\* lines 396, 407-415: the production
step_production(c, acts, ts) ==
    produce(c,
            c.heap[ts].material_stock + acts.material_order * Scale,
            production_capacity_50(acts, c.heap[c.new_state])
                + production_capacity_100(acts, c.heap[c.new_state]))

sell(c, shirts_before_sales, shirt_sales, shirt_price) ==
    [c EXCEPT !.heap[c.new_state].shirt_sales = shirt_sales,
              !.heap[c.new_state].shirt_stock = shirts_before_sales - shirt_sales,
              !.sales_revenue = shirt_sales * shirt_price]

\* the shirts in demand are sold, whether they are there or not
step_sales_by_demand(c, acts, ts) ==
    sell(c,
         c.heap[ts].shirt_stock + c.actual_production,
         shirts_demand(acts, c.heap[ts]),
         acts.shirt_price)

\* lines 417-425: the shirt sales
step_sales(c, acts, ts) ==
    sell(c,
         c.heap[ts].shirt_stock + c.actual_production,
         Min(c.heap[ts].shirt_stock + c.actual_production,
             shirts_demand(acts, c.heap[ts])),
         acts.shirt_price)

\* lines 427-439: investments, expenses, interest, the bank account
step_bank_account(c, acts, last, ts) ==
    LET ts_state == c.heap[ts]
        investments == investments_machines_outlets(acts, last, ts_state)
        expenses == regular_expenses(acts, ts_state)
        interest == IF ts_state.bank_account > 0
                    THEN positive_interest(ts_state.bank_account)
                    ELSE negative_interest(ts_state.bank_account)
    IN  [c EXCEPT !.heap[c.new_state].bank_account =
            ts_state.bank_account + interest + c.sales_revenue
                - investments - expenses]

\* lines 441-443: the customer interest
step_customer_interest(c, acts, ts) ==
    [c EXCEPT !.heap[c.new_state].customer_interest =
                    customer_interest(acts, c.heap[ts])]

\* lines 445-447: the material price
step_material_price(c, ts) ==
    [c EXCEPT !.heap[c.new_state].material_price =
                round(PyIndex(rnd_material_price, c.heap[ts].turn - 1))]

\* new_state.turn = ts_state.turn: the turn is not advanced
same_turn(turn) == turn

\* the turn after ts_state.turn (line 449)
next_turn(turn) == turn + 1

\* line 449
step_turn(c, ts) ==
    [c EXCEPT !.heap[c.new_state].turn = next_turn(c.heap[ts].turn)]

\* lines 451-453: the company value
step_company_value(c, acts) ==
    [c EXCEPT !.heap[c.new_state].company_value =
                    company_value(acts, c.heap[c.new_state])]

\* lines 455-456
step_round_and_update(c) ==
    [c EXCEPT !.heap[c.new_state] = round_and_update(c.heap[c.new_state])]

\* line 393: new_state = Tailorshop_State.from_ts_state(ts_state)
step_new_state(made) ==
    [heap |-> made.heap, new_state |-> made.ret,
     actual_production |-> 0, sales_revenue |-> 0]

\* lines 393-458, for a state that is not finished
calculate_new_state(acts, last, ts, sh, live) ==
    step_round_and_update(
     step_company_value(
      step_turn(
       step_material_price(
        step_customer_interest(
         step_bank_account(
          step_sales(
           step_production(
            step_satisfaction(
             step_machine_capacity(
              step_new_state(clone_state(sh, ts, live)),
              acts, ts),
             acts, ts),
            acts, ts),
           acts, ts),
          acts, last, ts),
         acts, ts),
        ts),
       ts),
      acts))

returned(c) == [heap |-> c.heap, ret |-> c.new_state]

\* calculate_step without lines 387-389: a finished state is stepped as well
calculate_step_unguarded(acts, last, ts, sh, live) ==
    returned(calculate_new_state(acts, last, ts, sh, live))

calculate_step(acts, last, ts, sh, live) ==
    IF is_finished_state(sh[ts])
    THEN [heap |-> sh, ret |-> None]
    ELSE returned(calculate_new_state(acts, last, ts, sh, live))

-----------------------------------------------------------------------------
(* tailorshop.py: Tailorshop.__init__ (randomize = False)                  *)
(* ts_state, initial_actions: the objects handed in, NoObj for None        *)

init_current_state(ts_state) ==
    IF ts_state # NoObj THEN from_ts_state(ts_state)
                        ELSE Tailorshop_State(StateDefaults)

init_last_actions(initial_actions, use_steps) ==
    IF initial_actions # NoObj
    THEN [CV_copy(initial_actions) EXCEPT !.use_steps = use_steps]
    ELSE Controllable_Variables([Defaults EXCEPT !.use_steps = use_steps])

\* Tailorshop(ts_state, initial_actions, use_steps): a second engine, held
\* with the objects of its two attributes; no other variable refers to them
Tailorshop(ts_state, initial_actions, use_steps) ==
    [current_state |-> init_current_state(ts_state),
     last_actions  |-> init_last_actions(initial_actions, use_steps)]

\* engine.do_next_step(acts) on the second engine (NoObj: there is none);
\* on a finished engine it raises and changes nothing
twin_do_next_step(engine, acts) ==
    IF engine = NoObj THEN NoObj
    ELSE LET sh == [a \in Addr |->
                        IF a = 1 THEN engine.current_state ELSE NoObj]
         IN  IF is_finished(sh, 1) THEN engine
             ELSE LET r == calculate_step(acts, CV_copy(engine.last_actions),
                                          1, sh, {1})
                  IN  [current_state |-> r.heap[r.ret],
                       last_actions  |-> CV_copy(acts)]

-----------------------------------------------------------------------------
(* The operations, as steps of the model *)

NoArg == [field |-> "none", value |-> 0]

\* What is recorded of the construction of an object
Built(p, self) == [params |-> p, offsets |-> Offsets(self)]

\* actions.set_<f>(v), called by a driver that has made fewer than max calls
Set(f, v, max) ==
    /\ calls < max
    /\ aheap' = [aheap EXCEPT ![actions] = CallSetter(@, f, v)]
    /\ sheap' = Settle(sheap, current_state, None)
    /\ what_if' = None
    /\ finished' = FALSE
    /\ op' = "set"
    /\ arg' = [field |-> f, value |-> v]
    /\ raised' = FALSE
    /\ calls' = calls + 1
    /\ UNCHANGED <<last_actions, current_state, actions, built, steps, twin>>

\* actions.set_location(location) with any Python value
SetLocation(location, max) ==
    /\ calls < max
    /\ IF set_location_raises(location)
       THEN /\ raised' = TRUE
            /\ aheap' = aheap
       ELSE /\ raised' = FALSE
            /\ aheap' = [aheap EXCEPT ![actions] = set_location(@, location)]
    /\ sheap' = Settle(sheap, current_state, None)
    /\ what_if' = None
    /\ finished' = FALSE
    /\ op' = "set_location"
    /\ arg' = [field |-> "location", value |-> location.num,
               type |-> location.type, name |-> location.name]
    /\ calls' = calls + 1
    /\ UNCHANGED <<last_actions, current_state, actions, built, steps, twin>>

\* main_gui.py: the step of the +/- buttons of field f
button_step(f) ==
    CASE f = "workers_salary"       -> 100
      [] f = "worker_benefits"      -> 10
      [] f = "shirt_price"          -> 2
      [] f = "material_order"       -> 50
      [] f = "machines_maintenance" -> 100
      [] f = "advertising"          -> 100
      [] OTHER                      -> 1

\* main_gui.py: change_<f>(inc), the + (inc = 1) and - (inc = -1) buttons
Change(f, inc, max) ==
    Set(f, aheap[actions][f] + inc * button_step(f), max)

\* ts.is_finished()
IsFinished ==
    /\ current_state # None
    /\ finished' = is_finished(sheap, current_state)
    /\ sheap' = Settle(sheap, current_state, None)
    /\ what_if' = None
    /\ op' = "is_finished"
    /\ arg' = NoArg
    /\ raised' = FALSE
    /\ UNCHANGED <<aheap, last_actions, current_state, actions, built,
                   steps, calls, twin>>

\* actions = ts.get_last_actions()
GetLastActions ==
    /\ last_actions # None
    /\ LET c == copy_actions(aheap, last_actions, {last_actions, actions})
       IN  /\ actions' = SettledDriver(last_actions, c.ret)
           /\ aheap' = Settle(c.heap, last_actions, c.ret)
           /\ built' = Built(CopyArgs(aheap[last_actions]), c.heap[c.ret])
    /\ sheap' = Settle(sheap, current_state, None)
    /\ what_if' = None
    /\ finished' = FALSE
    /\ op' = "get_last_actions"
    /\ arg' = NoArg
    /\ raised' = FALSE
    /\ UNCHANGED <<last_actions, current_state, steps, calls, twin>>

\* what_if = ts.calculate_step(actions, ts.last_actions, ts.current_state)
CalculateStep ==
    /\ current_state # None
    /\ LET r == calculate_step(aheap[actions], aheap[last_actions],
                               current_state, sheap, {current_state})
       IN  /\ what_if' = SettledDriver(current_state, r.ret)
           /\ sheap' = Settle(r.heap, current_state, r.ret)
    /\ finished' = FALSE
    /\ op' = "calculate_step"
    /\ arg' = NoArg
    /\ raised' = FALSE
    /\ UNCHANGED <<aheap, last_actions, current_state, actions, built,
                   steps, calls, twin>>

\* ts.do_next_step(actions), and then the same call with the same object on
\* the second engine when the driver has one
DoNextStep ==
    /\ current_state # None
    /\ op' = "do_next_step"
    /\ arg' = NoArg
    /\ what_if' = None
    /\ finished' = FALSE
    /\ UNCHANGED <<built, calls>>
    /\ IF is_finished(sheap, current_state)
       THEN /\ raised' = TRUE
            /\ sheap' = Settle(sheap, current_state, None)
            /\ UNCHANGED <<aheap, last_actions, current_state, actions, steps>>
       ELSE LET last == copy_actions(aheap, last_actions,
                                     {last_actions, actions})
                r == calculate_step(aheap[actions], last.heap[last.ret],
                                    current_state, sheap, {current_state})
                c == copy_actions(aheap, actions, {last_actions, actions})
            IN  /\ last_actions' = SettledEngine(c.ret)
                /\ actions' = SettledDriver(c.ret, actions)
                /\ aheap' = Settle(c.heap, c.ret, actions)
                /\ current_state' = SettledEngine(r.ret)
                /\ sheap' = Settle(r.heap, r.ret, None)
                /\ raised' = FALSE
                /\ steps' = steps + 1
    /\ twin' = twin_do_next_step(twin, aheap'[actions'])

\* tailorshop.py: the names class Tailorshop defines and __init__ assigns
Tailorshop_attributes ==
    { "positive_interest", "negative_interest", "max_machine_capacity",
      "max_advertising_effect", "max_worker_satisfaction", "locations_rents",
      "outlet_rent", "cash_injection", "price_machine50", "price_machine100",
      "price_outlet", "rnd_machines_50", "rnd_machines_100",
      "rnd_customer_interest", "rnd_material_price", "current_state",
      "last_actions", "_production_capacity_50", "_production_capacity_100",
      "_shirts_demand", "_investments_machines_outlets", "_trade",
      "_regular_expenses", "customer_interest", "_company_value",
      "is_finished", "_is_finished", "calculate_step", "do_next_step",
      "get_last_actions" }

\* main_gui.py: reset_simulation(), the Reset button.  Its first statement
\* is tailorshop.reset(); Tailorshop has no attribute reset, the call raises
\* AttributeError and no later statement of the callback is executed.
ResetSimulation ==
    /\ current_state # None
    /\ "reset" \notin Tailorshop_attributes
    /\ raised' = TRUE
    /\ sheap' = Settle(sheap, current_state, None)
    /\ what_if' = None
    /\ finished' = FALSE
    /\ op' = "reset_simulation"
    /\ arg' = NoArg
    /\ UNCHANGED <<aheap, last_actions, current_state, actions, built,
                   steps, calls, twin>>

-----------------------------------------------------------------------------
(* Spec: the run of main.py and of main_gui.py.  The driver constructs the *)
(* engine with its defaults, takes its actions from get_last_actions(),    *)
(* changes them with the setters and steps the simulation.                 *)

\* main.py: setter calls of the script
DriverMenu ==
    { <<"machines100", 2>>, <<"material_order", 500>>,
      <<"workers_salary", 1180>> }

Init ==
        LET la == init_last_actions(NoObj, TRUE)
            ah == [a \in Addr |-> IF a = 1 THEN la ELSE NoObj]
            c  == copy_actions(ah, 1, {1})
        IN  /\ aheap = Settle(c.heap, 1, c.ret)
            /\ last_actions = 1
            /\ actions = SettledDriver(1, c.ret)
            /\ built = Built(CopyArgs(la), c.heap[c.ret])
            /\ sheap = [a \in Addr |->
                            IF a = 1 THEN init_current_state(NoObj) ELSE NoObj]
            /\ current_state = 1
            /\ what_if = None
            /\ op = "init"
            /\ arg = NoArg
            /\ raised = FALSE
            /\ finished = FALSE
            /\ steps = 0
            /\ calls = 0
            /\ twin = NoObj

Next ==
    \/ \E c \in DriverMenu : Set(c[1], c[2], MaxChanges)
    \/ IsFinished
    \/ GetLastActions
    \/ CalculateStep
    \/ DoNextStep

Spec == Init /\ [][Next]_vars

-----------------------------------------------------------------------------
(* SpecActions: a Controllable_Variables object on its own.  A driver      *)
(* constructs it and calls its setters, directly or by the +/- buttons.    *)

\* Constructor arguments off the step grid, inside the ranges
OffGrid ==
    [Defaults EXCEPT !.worker_benefits = 55, !.shirt_price = 53,
                     !.material_order = 25, !.machines_maintenance = 1250,
                     !.advertising = 2850]

ConstructorInputs ==
    { Defaults,
      OffGrid,
      [Defaults EXCEPT !.use_steps = FALSE],
      [OffGrid EXCEPT !.use_steps = FALSE],
      [Defaults EXCEPT !.workers_salary = 1000],
      [Defaults EXCEPT !.workers_salary = 6000, !.advertising = 20000],
      [Defaults EXCEPT !.workers_salary = -500, !.shirt_price = 5] }

\* The values handed to the setter of field f: below the range, inside it
\* (on and off the grid), its maximum, above it
SetterInputs(f) ==
    CASE f = "workers_salary"       -> {-500, 1150, 1180, 5000, 6000}
      [] f = "worker_benefits"      -> {-5, 100, 105, 500}
      [] f = "shirt_price"          -> {9, 66, 67, 100}
      [] f = "material_order"       -> {-1, 525, 5000}
      [] f = "machines_maintenance" -> {-1, 1350, 5000}
      [] f = "advertising"          -> {-1, 3000, 3050, 10000}
      [] f = "location"             -> {-1, 2, 3}
      [] f = "outlets"              -> {-1, 11}
      [] OTHER                      -> {-1, 2, 21}

InitActions ==
    \E p \in ConstructorInputs :
        /\ aheap = [a \in Addr |->
                        IF a = 2 THEN Controllable_Variables(p) ELSE NoObj]
        /\ actions = 2
        /\ built = Built(p, Controllable_Variables(p))
        /\ last_actions = None
        /\ sheap = [a \in Addr |-> NoObj]
        /\ current_state = None
        /\ what_if = None
        /\ op = "init"
        /\ arg = NoArg
        /\ raised = FALSE
        /\ finished = FALSE
        /\ steps = 0
        /\ calls = 0
        /\ twin = NoObj

\* Values handed to set_location that are no int: names in several
\* spellings, a string that is no name, a float
LocationInputs ==
    { PyStr("Suburb"), PyStr("city"), PyStr("INNER CITY"), PyStr("downtown"),
      PyFloat(2500) }

NextActions ==
    \/ \E f \in Fields : \E v \in SetterInputs(f) : Set(f, v, MaxSetterCalls)
    \/ \E l \in LocationInputs : SetLocation(l, MaxSetterCalls)
    \/ \E f \in Fields : \E inc \in {-1, 1} : Change(f, inc, MaxSetterCalls)

SpecActions == InitActions /\ [][NextActions]_vars

-----------------------------------------------------------------------------
(* SpecStep: the transition from any state.  The engine is constructed     *)
(* with a state and with the actions that led to it; the driver constructs *)
(* its own actions and steps the simulation with them.                     *)

\* Arguments of Tailorshop_State(...) for the state the engine starts from
StateInputs ==
    { [StateDefaults EXCEPT !.machine_capacity = mc * Scale, !.turn = t,
                            !.shirt_stock = st[1] * Scale,
                            !.material_stock = st[2] * Scale] :
        mc \in {0, 47}, t \in {0, 1, 12, 13, 14},
        st \in {<<81, 16>>, <<0, 0>>} }
    \cup
    { [StateDefaults EXCEPT !.bank_account = -50000 * Scale,
                            !.shirt_sales = -1 * Scale,
                            !.shirt_stock = -5 * Scale,
                            !.customer_interest = -20 * Scale,
                            !.machine_capacity = 60 * Scale,
                            !.turn = -1] }

\* Arguments of Controllable_Variables(...) for the actions of the driver
ActionInputs ==
    { Defaults,
      [Defaults EXCEPT !.workers_salary = 0],
      [Defaults EXCEPT !.advertising = 0, !.outlets = 0],
      [Defaults EXCEPT !.machines_maintenance = 5000, !.machines50 = 1],
      [Defaults EXCEPT !.machines_maintenance = 0, !.machines50 = 0],
      [Defaults EXCEPT !.machines_maintenance = 0],
      [Defaults EXCEPT !.machines100 = 20, !.workers100 = 20,
                       !.material_order = 5000],
      [Defaults EXCEPT !.shirt_price = 10, !.location = 2, !.outlets = 2],
      [Defaults EXCEPT !.shirt_price = 100, !.location = 0],
      [OffGrid EXCEPT !.use_steps = FALSE] }

\* initial_actions of the engine: None, or actions with more to sell
LastInputs ==
    { NoObj,
      Controllable_Variables([Defaults EXCEPT !.machines50 = 12,
                                !.machines100 = 2, !.outlets = 3]) }

InitStep ==
    \E s \in StateInputs, p \in ActionInputs, la \in LastInputs :
        /\ aheap = [a \in Addr |->
                        IF a = 1 THEN init_last_actions(la, TRUE)
                        ELSE IF a = 2 THEN Controllable_Variables(p)
                        ELSE NoObj]
        /\ last_actions = 1
        /\ actions = 2
        /\ built = Built(p, Controllable_Variables(p))
        /\ sheap = [a \in Addr |->
                        IF a = 1 THEN init_current_state(Tailorshop_State(s))
                        ELSE NoObj]
        /\ current_state = 1
        /\ what_if = None
        /\ op = "init"
        /\ arg = NoArg
        /\ raised = FALSE
        /\ finished = FALSE
        /\ steps = 0
        /\ calls = 0
        /\ twin = NoObj

NextStep ==
    \/ IsFinished
    \/ CalculateStep
    \/ DoNextStep

SpecStep == InitStep /\ [][NextStep]_vars

-----------------------------------------------------------------------------
(* SpecCopy: the actions that pass between a driver and an engine.  The    *)
(* driver constructs actions and an engine with them as initial_actions,   *)
(* near the end of a simulation; then it takes the last actions, changes   *)
(* the object it holds and steps with it.                                  *)

\* Arguments of Controllable_Variables(...) for the initial actions
CopyInputs ==
    { Defaults,
      OffGrid,
      [OffGrid EXCEPT !.use_steps = FALSE],
      [Defaults EXCEPT !.workers_salary = 6000],
      [Defaults EXCEPT !.shirt_price = -3],
      [Defaults EXCEPT !.shirt_price = -30] }

\* Setter calls of the driver
CopyMenu ==
    { <<"worker_benefits", 100>>, <<"workers_salary", 1150>>,
      <<"machines50", 12>>, <<"outlets", 2>> }

\* Tailorshop(ts_state = Tailorshop_State(turn = 12),
\*            initial_actions = actions, use_steps = use_steps)
InitCopy ==
    \E p \in CopyInputs, use_steps \in BOOLEAN :
        /\ aheap = [a \in Addr |->
                        IF a = 1
                        THEN init_last_actions(Controllable_Variables(p),
                                               use_steps)
                        ELSE IF a = 2 THEN Controllable_Variables(p)
                        ELSE NoObj]
        /\ last_actions = 1
        /\ actions = 2
        /\ built = Built(p, Controllable_Variables(p))
        /\ sheap = [a \in Addr |->
                        IF a = 1
                        THEN init_current_state(Tailorshop_State(
                                [StateDefaults EXCEPT !.turn = 12]))
                        ELSE NoObj]
        /\ current_state = 1
        /\ what_if = None
        /\ op = "init"
        /\ arg = NoArg
        /\ raised = FALSE
        /\ finished = FALSE
        /\ steps = 0
        /\ calls = 0
        /\ twin = NoObj

NextCopy ==
    \/ \E c \in CopyMenu : Set(c[1], c[2], MaxCopyCalls)
    \/ GetLastActions
    \/ DoNextStep

SpecCopy == InitCopy /\ [][NextCopy]_vars

-----------------------------------------------------------------------------
(* SpecTwin: two engines.  The driver constructs two engines from the same *)
(* state object and the same initial actions, and actions of its own; it   *)
(* changes its actions, asks the first engine what a step would give and   *)
(* for its last actions, and steps both engines with the same object.      *)

\* Setter calls the driver of two engines makes on its actions.
MaxTwinCalls == 1

\* Setter calls of the driver
TwinMenu ==
    { <<"machines100", 2>>, <<"workers_salary", 0>> }

\* States the two engines start from
TwinStates ==
    { s \in StateInputs : s.turn \in {12, 13, 14} }

InitTwin ==
    \E s \in TwinStates, p \in ActionInputs, la \in LastInputs :
        /\ aheap = [a \in Addr |->
                        IF a = 1 THEN init_last_actions(la, TRUE)
                        ELSE IF a = 2 THEN Controllable_Variables(p)
                        ELSE NoObj]
        /\ last_actions = 1
        /\ actions = 2
        /\ built = Built(p, Controllable_Variables(p))
        /\ sheap = [a \in Addr |->
                        IF a = 1 THEN init_current_state(Tailorshop_State(s))
                        ELSE NoObj]
        /\ current_state = 1
        /\ what_if = None
        /\ op = "init"
        /\ arg = NoArg
        /\ raised = FALSE
        /\ finished = FALSE
        /\ steps = 0
        /\ calls = 0
        /\ twin = Tailorshop(Tailorshop_State(s), la, TRUE)

NextTwin ==
    \/ \E c \in TwinMenu : Set(c[1], c[2], MaxTwinCalls)
    \/ IsFinished
    \/ GetLastActions
    \/ CalculateStep
    \/ DoNextStep

SpecTwin == InitTwin /\ [][NextTwin]_vars

-----------------------------------------------------------------------------
(* SpecTrade: buying and selling.  The driver constructs the default       *)
(* engine, takes its last actions, changes the number of machines and the  *)
(* maintenance with the setters and steps the simulation.                  *)

\* Setter calls the driver makes between the steps of a trade.
MaxTradeCalls == 2

\* Setter calls of the driver, all with values in the documented ranges
TradeMenu ==
    { <<"machines50", 1>>, <<"machines50", 2>>,
      <<"machines_maintenance", 5000>> }

NextTrade ==
    \/ \E c \in TradeMenu : Set(c[1], c[2], MaxTradeCalls)
    \/ DoNextStep

SpecTrade == Init /\ [][NextTrade]_vars

-----------------------------------------------------------------------------
(* SpecGui: the window of main_gui.py.  The driver constructs the default  *)
(* engine and takes its last actions; the user presses + and - buttons,    *)
(* Next Step and Reset.                                                    *)

\* Presses of + and - buttons in one run of the window.
MaxGuiChanges == 1

\* the + and - buttons that are pressed
GuiButtons ==
    { <<"workers50", 1>>, <<"machines50", -1>>, <<"shirt_price", 1>>,
      <<"workers_salary", -1>> }

NextGui ==
    \/ \E b \in GuiButtons : Change(b[1], b[2], MaxGuiChanges)
    \/ DoNextStep
    \/ ResetSimulation

SpecGui == Init /\ [][NextGui]_vars

-----------------------------------------------------------------------------
(* SpecRun: the run of SpecStep with a caller that keeps stepping.  Weak   *)
(* fairness of DoNextStep, written out: a do_next_step call changes        *)
(* something again and again, unless the engine is again and again in a    *)
(* state where the call can only raise, which is a finished state.         *)

KeepsStepping ==
    \/ []<><<DoNextStep>>_vars
    \/ []<>(is_finished(sheap, current_state))

SpecRun == InitStep /\ [][NextStep]_vars /\ KeepsStepping

-----------------------------------------------------------------------------
(* Properties.  What they read of a state:                                 *)

\* the documented range of each field of Controllable_Variables
FieldMin(f) == IF f = "shirt_price" THEN 10 ELSE 0

FieldMax(f) ==
    CASE f \in {"workers_salary", "material_order", "machines_maintenance"}
                                    -> 5000
      [] f = "worker_benefits"      -> 500
      [] f = "shirt_price"          -> 100
      [] f = "advertising"          -> 10000
      [] f = "outlets"              -> 10
      [] f = "location"             -> 2
      [] OTHER                      -> 20

InRange(f, v) == FieldMin(f) <= v /\ v <= FieldMax(f)

\* the documented step of each field that has an offset
StepOf(f) ==
    CASE f \in {"workers_salary", "machines_maintenance", "advertising"}
                                    -> 100
      [] f = "worker_benefits"      -> 10
      [] f = "shirt_price"          -> 2
      [] f = "material_order"       -> 50

\* the fields of a state that are documented as never negative
NonNegativeFields ==
    {"shirt_sales", "shirt_stock", "material_price", "material_stock",
     "customer_interest", "worker_satisfaction"}

\* the state the last operation has returned (calculate_step) or committed
\* (do_next_step), None if it has done neither
Produced ==
    IF op = "calculate_step" THEN what_if
    ELSE IF op = "do_next_step" /\ ~raised THEN current_state
    ELSE None

\* the turn of the engine
Turn == sheap[current_state].turn

-----------------------------------------------------------------------------
\* C1: on an object constructed with the default values (workers_salary
\* 1080, stepping enabled), after a call of set_X(v) the stored value of X is
\* within the documented range [min, max] of X, whatever v is.
C1_SetterKeepsRange ==
    (op = "set" /\ built.params = Defaults)
        => InRange(arg.field, aheap[actions][arg.field])

\* set_workers_salary(5000) on the default object stores 5080
C1_Witness ==
    /\ op = "set"
    /\ built.params = Defaults
    /\ arg = [field |-> "workers_salary", value |-> 5000]
    /\ aheap[actions].workers_salary = 5080

\* C2: in the state a calculate_step has returned or a do_next_step has
\* committed, shirt_sales, shirt_stock, material_price, material_stock,
\* customer_interest and worker_satisfaction are all >= 0.
C2_NonNegativeAfterTransition ==
    Produced # None => \A f \in NonNegativeFields : sheap[Produced][f] >= 0

\* a step with workers_salary 0 commits a negative worker_satisfaction
C2_Witness ==
    /\ op = "do_next_step"
    /\ Produced # None
    /\ aheap[actions].workers_salary = 0
    /\ sheap[Produced].worker_satisfaction < 0

\* C3: in the state a calculate_step has returned or a do_next_step has
\* committed, machine_capacity is within [0, 50].
C3_MachineCapacityBounded ==
    Produced # None =>
        /\ 0 <= sheap[Produced].machine_capacity
        /\ sheap[Produced].machine_capacity <= max_machine_capacity * Scale

\* a step from machine_capacity 47 with maintenance 5000 on one machine
\* commits the machine_capacity 127
C3_Witness ==
    /\ op = "do_next_step"
    /\ Produced # None
    /\ steps = 1
    /\ aheap[actions].machines_maintenance = 5000
    /\ aheap[actions].machines50 + aheap[actions].machines100 = 1
    /\ sheap[Produced].machine_capacity = 127 * Scale

\* C4: a do_next_step on an engine whose current state is finished raises
\* the error, and leaves the engine's current state (its turn included) and
\* its last actions as they were.
C4_FailedStepChangesNothing ==
    [][(op' = "do_next_step" /\ is_finished_state(sheap[current_state]))
        => /\ raised'
           /\ current_state' # None
           /\ sheap'[current_state'] = sheap[current_state]
           /\ aheap'[last_actions'] = aheap[last_actions]
           /\ steps' = steps]_vars

C4_Witness ==
    /\ op = "do_next_step"
    /\ raised
    /\ is_finished_state(sheap[current_state])
    /\ steps = 1

\* C5: a do_next_step that returns normally increases the turn of the engine
\* by exactly 1; every other operation (a setter, is_finished,
\* get_last_actions, calculate_step, a do_next_step that raises) leaves the
\* turn as it was.
C5_TurnAdvancesByOne ==
    [][IF op' = "do_next_step" /\ ~raised'
       THEN sheap'[current_state'].turn = Turn + 1
       ELSE sheap'[current_state'].turn = Turn]_vars

C5_Witness ==
    /\ op = "do_next_step"
    /\ ~raised
    /\ steps = 2
    /\ Turn = 3

\* C6: is_finished() returns true exactly when the turn is >= 14.  From the
\* default initial state (turn 1) the turn is 1 + the number of steps done,
\* so is_finished() returns false after each of the first 12 steps and true
\* after the 13th; no 14th step is ever done, and a do_next_step raises only
\* after 13 steps.
C6_FinishedAtTurn14 ==
    /\ Turn = steps + 1
    /\ steps <= 13
    /\ op = "is_finished" => (finished <=> Turn >= 14)
    /\ op = "is_finished" => (finished <=> steps = 13)
    /\ (op = "do_next_step" /\ raised) => steps = 13
    /\ (op = "do_next_step" /\ steps < 13) => ~raised

C6_Witness ==
    /\ op = "is_finished"
    /\ finished
    /\ steps = 13
    /\ Turn = 14

\* C7: the offsets of an object stay the ones captured at its construction,
\* whatever setters are called; with stepping enabled each of
\* workers_salary, worker_benefits, shirt_price, material_order,
\* machines_maintenance and advertising differs from its offset by a
\* multiple of its step (100, 10, 2, 50, 100, 100).
C7_PhaseKept ==
    /\ Offsets(aheap[actions]) = built.offsets
    /\ aheap[actions].use_steps =>
        \A f \in OffsetFields :
            (aheap[actions][f] - built.offsets[f]) % StepOf(f) = 0

C7_Witness ==
    /\ op = "set"
    /\ calls = 2
    /\ aheap[actions].use_steps
    /\ arg = [field |-> "worker_benefits", value |-> 105]
    /\ built.offsets.worker_benefits = 5
    /\ aheap[actions].worker_benefits = 105
    /\ aheap[actions].workers_salary # built.params.workers_salary

\* C8: on an object constructed with workers_salary 1080 and stepping
\* enabled, set_workers_salary(1150) stores 1080, and set_workers_salary(v)
\* for v within [0, 5000] stores a value that does not exceed v.
C8_SalaryLoweredToPhase ==
    (/\ op = "set"
     /\ arg.field = "workers_salary"
     /\ aheap[actions].use_steps
     /\ built.params.workers_salary = 1080)
        => /\ arg.value = 1150 => aheap[actions].workers_salary = 1080
           /\ InRange("workers_salary", arg.value)
                => aheap[actions].workers_salary <= arg.value

\* set_workers_salary(1150) on the default object stores 1180
C8_Witness ==
    /\ op = "set"
    /\ built.params = Defaults
    /\ arg = [field |-> "workers_salary", value |-> 1150]
    /\ aheap[actions].workers_salary = 1180

\* C9: with stepping enabled, on an object whose field X (one of the six
\* with an offset) was constructed within its range, set_X(v) for v within
\* the range and congruent to the construction value (so to the captured
\* offset) modulo the step of X stores exactly v; so set_workers_salary(1180)
\* on the default object stores 1180, and a + or - button that stays within
\* the range moves the value by exactly one step.
C9_AlignedValueKept ==
    (/\ op = "set"
     /\ arg.field \in OffsetFields
     /\ aheap[actions].use_steps
     /\ InRange(arg.field, built.params[arg.field])
     /\ InRange(arg.field, arg.value)
     /\ (arg.value - built.params[arg.field]) % StepOf(arg.field) = 0)
        => aheap[actions][arg.field] = arg.value

C9_Witness ==
    /\ op = "set"
    /\ built.params = Defaults
    /\ arg = [field |-> "workers_salary", value |-> 1180]
    /\ aheap[actions].workers_salary = 1180

\* C10: calculate_step changes none of the objects it is given and nothing
\* of the engine: the actions, the last actions and the current state are
\* after the call the objects they were before it, with the values they had
\* (these three objects are all a following do_next_step reads).
C10_CalculateStepIsPure ==
    [][op' = "calculate_step"
        => /\ actions' = actions
           /\ last_actions' = last_actions
           /\ current_state' = current_state
           /\ aheap'[actions'] = aheap[actions]
           /\ aheap'[last_actions'] = aheap[last_actions]
           /\ sheap'[current_state'] = sheap[current_state]
           /\ steps' = steps]_vars

C10_Witness ==
    /\ op = "calculate_step"
    /\ what_if # None
    /\ what_if # current_state
    /\ sheap[what_if].turn = Turn + 1
    /\ steps = 1
    /\ calls = 1

\* the length of the noise tables: the turn from which a state is finished
Horizon == Len(rnd_material_price)

\* C11: calculate_step on a current state whose turn is at or past the
\* length of the noise tables does not raise and returns None, and it
\* changes nothing of the engine nor of the actions given to it.
C11_NoStateWhenFinished ==
    [][(op' = "calculate_step" /\ Turn >= Horizon)
        => /\ what_if' = None
           /\ ~raised'
           /\ current_state' = current_state
           /\ last_actions' = last_actions
           /\ sheap' = sheap
           /\ aheap' = aheap
           /\ steps' = steps]_vars

C11_Witness ==
    /\ op = "calculate_step"
    /\ Turn >= Horizon
    /\ what_if = None
    /\ ~raised
    /\ steps = 1

\* C12: the object get_last_actions() returns is another object than the
\* last actions the engine stores, with the same values in all twelve
\* fields.
C12_LastActionsCopied ==
    op = "get_last_actions" =>
        /\ actions # last_actions
        /\ \A f \in Fields : aheap[actions][f] = aheap[last_actions][f]

\* the engine stores the shirt_price -10, get_last_actions() returns 0
C12_Witness ==
    /\ op = "get_last_actions"
    /\ aheap[last_actions].shirt_price = -10
    /\ aheap[actions].shirt_price = 0

\* C13: after a do_next_step(actions) that returns, the last actions the
\* engine stores are another object than the given actions, with the same
\* values in all twelve fields.
C13_StepStoresCopy ==
    (op = "do_next_step" /\ ~raised) =>
        /\ last_actions # actions
        /\ \A f \in Fields : aheap[last_actions][f] = aheap[actions][f]

\* do_next_step with actions of shirt_price 7 stores the shirt_price 11
C13_Witness ==
    /\ op = "do_next_step"
    /\ ~raised
    /\ aheap[actions].shirt_price = 7
    /\ aheap[last_actions].shirt_price = 11

\* C14: a clone (the one get_last_actions() returns of the stored last
\* actions, the one do_next_step stores of the given actions) equals its
\* original in all twelve fields, in use_steps and in the six offsets.
C14_CloneEqualsOriginal ==
    (op = "get_last_actions" \/ (op = "do_next_step" /\ ~raised)) =>
        aheap[actions] = aheap[last_actions]

\* the engine was constructed with use_steps = TRUE and initial actions
\* constructed with use_steps = FALSE: the clone of its last actions has the
\* same twelve values and the same flag, and other offsets
C14_Witness ==
    /\ op = "get_last_actions"
    /\ steps = 0
    /\ aheap[last_actions].use_steps
    /\ aheap[actions].use_steps
    /\ aheap[last_actions].worker_benefits = 55
    /\ \A f \in Fields : aheap[actions][f] = aheap[last_actions][f]
    /\ aheap[last_actions].worker_benefits_offset = 0
    /\ aheap[actions].worker_benefits_offset = 5

\* C15: the clone of the state the engine holds (its initial state, or the
\* state a do_next_step has committed) equals that state in every field.
C15_StateCloneEqualsOriginal ==
    current_state # None =>
        from_ts_state(sheap[current_state]) = sheap[current_state]

\* the engine holds the machine_capacity 127 and the damage -154 after a
\* step; the clone of its state has the machine_capacity 50 and the damage 0
C15_Witness ==
    /\ op = "do_next_step"
    /\ ~raised
    /\ steps = 1
    /\ sheap[current_state].machine_capacity = 127 * Scale
    /\ sheap[current_state].damage = -154 * Scale
    /\ from_ts_state(sheap[current_state]).machine_capacity = 50 * Scale
    /\ from_ts_state(sheap[current_state]).damage = 0

\* C16: no setter raises, whatever it is given, and after set_location with
\* an int, another number or a string the stored location is 0, 1 or 2; a
\* name of a location in any case stores its index.
C16_NoSetterRaises ==
    op \in {"set", "set_location"} =>
        /\ ~raised
        /\ aheap[actions].location \in 0..2
        /\ (op = "set_location" /\ lower(arg.name) = "suburb")
                => aheap[actions].location = 0
        /\ (op = "set_location" /\ lower(arg.name) = "city")
                => aheap[actions].location = 1
        /\ (op = "set_location" /\ lower(arg.name) = "inner city")
                => aheap[actions].location = 2

\* set_location(2.5) raises
C16_Witness ==
    /\ op = "set_location"
    /\ arg.type = "float"
    /\ arg.value = 2500
    /\ raised

\* C17: in the state the engine holds, damage = 2 * (50 - machine_capacity)
\* and percent_worker_satisfaction = round(100 * worker_satisfaction / 1.7)
\* for the machine_capacity and the worker_satisfaction of that same state,
\* and damage is within [0, 100].
C17_ShownValuesDerived ==
    current_state # None =>
        LET s == sheap[current_state]
        IN  /\ s.damage = 2 * (50 * Scale - s.machine_capacity)
            /\ s.percent_worker_satisfaction
                    = round(MulDiv(100 * s.worker_satisfaction, 10, 17))
            /\ 0 <= s.damage
            /\ s.damage <= 100 * Scale

\* after a step the engine holds the machine_capacity 127 and the damage
\* 2 * (50 - 127) = -154
C17_Witness ==
    /\ op = "do_next_step"
    /\ ~raised
    /\ sheap[current_state].machine_capacity = 127 * Scale
    /\ sheap[current_state].damage = 2 * (50 - 127) * Scale
    /\ sheap[current_state].damage < 0

\* C19: every field of an object lies within its documented range, after
\* its construction with any values and after every setter call.
C19_ConstructedInRange ==
    \A f \in Fields : InRange(f, aheap[actions][f])

\* Controllable_Variables(workers_salary = 6000, advertising = 20000) holds
\* the workers_salary 6000 and the advertising 20000
C19_Witness ==
    /\ op = "init"
    /\ built.params.workers_salary = 6000
    /\ built.params.advertising = 20000
    /\ aheap[actions].workers_salary = 6000
    /\ aheap[actions].advertising = 20000

\* what a change of a count by delta costs: the list price for each asset
\* bought, minus the selling price for each asset sold, nothing for none
Charge(delta, list_price, selling_price) ==
    IF delta > 0 THEN delta * list_price
    ELSE IF delta = 0 THEN 0
    ELSE - ((- delta) * selling_price)

\* the investment term of a step from state s with the actions acts, after
\* the actions last: list prices 10000, 10000, 20000; selling prices
\* 0.8 * 10000 - 100 * turn for an outlet and 0.8 * list price *
\* machine_capacity / 50 for a machine
ExpectedInvestment(acts, last, s) ==
      Charge(acts.outlets - last.outlets, 10000 * Scale,
             (8000 - 100 * s.turn) * Scale)
    + Charge(acts.machines50 - last.machines50, 10000 * Scale,
             160 * s.machine_capacity)
    + Charge(acts.machines100 - last.machines100, 20000 * Scale,
             320 * s.machine_capacity)

\* the bank_account a step with the given actions would commit if the last
\* actions had the same counts as the given ones
BankWithoutInvestment ==
    LET r == calculate_step(aheap[actions], aheap[actions], current_state,
                            sheap, {current_state})
    IN  r.heap[r.ret].bank_account

\* C20: the investment term of a do_next_step is the sum, over outlets,
\* machines50 and machines100, of the charge for delta = count in the given
\* actions - count in the last actions the engine stores (those of the
\* previous do_next_step, the initial ones before the first), and it is what
\* the committed bank_account holds less than it would with equal counts;
\* with equal counts the term is 0.
C20_InvestmentByDelta ==
    [][(op' = "do_next_step" /\ ~raised')
        => LET acts == aheap[actions]
               last == aheap[last_actions]
               s    == sheap[current_state]
               term == investments_machines_outlets(acts, last, s)
           IN  /\ term = ExpectedInvestment(acts, last, s)
               /\ (/\ acts.outlets = last.outlets
                   /\ acts.machines50 = last.machines50
                   /\ acts.machines100 = last.machines100) => term = 0
               /\ sheap'[current_state'].bank_account
                    = BankWithoutInvestment - ExpectedInvestment(acts, last, s)
               /\ \A f \in {"outlets", "machines50", "machines100"} :
                    aheap'[last_actions'][f] = acts[f]]_vars

\* the second step with 20 machines100, bought in the first step
C20_Witness ==
    /\ op = "do_next_step"
    /\ ~raised
    /\ steps = 2
    /\ aheap[actions].machines100 = 20
    /\ aheap[last_actions].machines100 = 20
    /\ built.params.machines100 = 20

SaleCredit(f, s) ==
    - investments_machines_outlets(
          [aheap[last_actions] EXCEPT ![f] = @ - 1], aheap[last_actions], s)

\* C21: in every state the default engine reaches by steps with in-range
\* actions, a machine50 sells for at most 8000, a machine100 for at most
\* 16000 and an outlet for at most 8000 (0.8 of the list price), so a sale
\* never returns more than the purchase cost.
C21_SellPriceBounded ==
    LET s == sheap[current_state]
    IN  /\ SaleCredit("machines50", s) <= 8000 * Scale
        /\ SaleCredit("machines100", s) <= 16000 * Scale
        /\ SaleCredit("outlets", s) <= 8000 * Scale

\* after one step with 1 machine50 and maintenance 5000 the machine capacity
\* is 127 and a machine50 sells for 20320, above its list price of 10000
C21_Witness ==
    /\ op = "do_next_step"
    /\ ~raised
    /\ steps = 1
    /\ \A f \in Fields : InRange(f, aheap[last_actions][f])
    /\ sheap[current_state].machine_capacity = 127 * Scale
    /\ SaleCredit("machines50", sheap[current_state]) = 20320 * Scale
    /\ SaleCredit("machines50", sheap[current_state])
         > price_machine50 * Scale

\* advertising, outlets and location of action sets that are compared
Marketing ==
    { <<0, 0, 0>>, <<0, 0, 2>>, <<5000, 1, 1>>, <<10000, 1, 1>> }

\* the driver's actions with advertising, outlets and location of m
WithMarketing(m) ==
    [aheap[actions] EXCEPT !.advertising = m[1], !.outlets = m[2],
                           !.location = m[3]]

\* the state a calculate_step call with the actions of m returns
Outcome(m) ==
    LET r == calculate_step(WithMarketing(m), aheap[last_actions],
                            current_state, sheap, {current_state, what_if})
    IN  r.heap[r.ret]

\* ten times the marketing term of the customer interest:
\* (min(advertising / 5, 900) + 100 * outlets) * (1 + location / 10)
MarketingTerm(m) ==
    (Min((m[1] * Scale) \div 5, 900 * Scale) + 100 * m[2] * Scale)
        * (10 + m[3])

\* C22 (as stated): action sets that differ only in advertising, outlets or
\* location give the same shirt_sales and shirt_stock in the new state, and
\* a different new customer_interest.
C22_MarketingAlwaysDiffers ==
    (op = "calculate_step" /\ what_if # None)
        => LET new == [m \in Marketing |-> Outcome(m)]
           IN  \A m \in Marketing, n \in Marketing :
                 m # n => /\ new[m].shirt_sales = new[n].shirt_sales
                          /\ new[m].shirt_stock = new[n].shirt_stock
                          /\ new[m].customer_interest
                                # new[n].customer_interest

\* C22 (amended): such action sets give the same shirt_sales and shirt_stock
\* in the new state, those of the step the engine computes for the driver's
\* own actions; their new customer_interest is equal when their marketing
\* terms are equal (advertising is capped at an effect of 900, no outlets
\* and no advertising leave nothing for the location to scale) and differs
\* when the terms differ by one or more, and then the demand the following
\* turn computes from the new state differs as well.
C22_MarketingActsNextTurn ==
    (op = "calculate_step" /\ what_if # None)
        => LET new == [m \in Marketing |-> Outcome(m)]
           IN  \A m \in Marketing :
                 /\ new[m].shirt_sales = sheap[what_if].shirt_sales
                 /\ new[m].shirt_stock = sheap[what_if].shirt_stock
                 /\ \A n \in Marketing :
                      /\ MarketingTerm(m) = MarketingTerm(n)
                           => new[m].customer_interest
                                = new[n].customer_interest
                      /\ MarketingTerm(m) >= MarketingTerm(n) + 10 * Scale
                           => /\ new[m].customer_interest
                                   > new[n].customer_interest
                              /\ shirts_demand(aheap[actions], new[m])
                                   > shirts_demand(aheap[actions], new[n])

\* a what-if step whose sales are limited by the demand, not by the shirts
\* at hand, and two action sets with advertising 5000 and 10000 that give
\* the same new customer_interest
C22_Witness ==
    /\ op = "calculate_step"
    /\ what_if # None
    /\ sheap[what_if].shirt_stock > 0
    /\ sheap[what_if].shirt_sales > 0
    /\ Outcome(<<5000, 1, 1>>).customer_interest
         = Outcome(<<10000, 1, 1>>).customer_interest
    /\ Outcome(<<0, 0, 0>>).customer_interest
         < Outcome(<<5000, 1, 1>>).customer_interest

\* the driver's actions lie in the documented ranges
ActionsInRange == \A f \in Fields : InRange(f, aheap[actions][f])

\* new_state of a step from the current state with the driver's actions, as
\* it is when the production is computed (lines 393-405)
BeforeProduction ==
    LET c == step_satisfaction(
              step_machine_capacity(
               step_new_state(clone_state(sheap, current_state,
                                          {current_state, what_if})),
               aheap[actions], current_state),
              aheap[actions], current_state)
    IN  c.heap[c.new_state]

\* the total production capacity of that step (line 408)
Capacity ==
    production_capacity_50(aheap[actions], BeforeProduction)
        + production_capacity_100(aheap[actions], BeforeProduction)

\* the material available to that step (line 396)
AvailableMaterial ==
    sheap[current_state].material_stock + aheap[actions].material_order * Scale

\* C23: in a state produced with in-range actions production_idle lies in
\* [0, 1]; it is 0 when the total production capacity is 0 or the available
\* material is at least the capacity, and otherwise it is the quotient
\* (capacity - material) / capacity itself, not rounded to an integer.
C23_ProductionIdle ==
    /\ (Produced # None /\ ActionsInRange)
          => /\ 0 <= sheap[Produced].production_idle
             /\ sheap[Produced].production_idle <= Scale
    /\ (op = "calculate_step" /\ what_if # None /\ ActionsInRange)
          => /\ (Capacity = 0 \/ AvailableMaterial >= Capacity)
                   => sheap[what_if].production_idle = 0
             /\ (Capacity # 0 /\ AvailableMaterial < Capacity)
                   => sheap[what_if].production_idle
                        = FixDiv(Capacity - AvailableMaterial, Capacity)

\* the default step: 16 units of material for a capacity of more than 400
\* shirts leave the machines idle for a fraction strictly between 0 and 1
C23_Witness ==
    /\ op = "calculate_step"
    /\ what_if # None
    /\ ActionsInRange
    /\ Capacity > AvailableMaterial
    /\ AvailableMaterial = 16 * Scale
    /\ sheap[what_if].production_idle > 0
    /\ sheap[what_if].production_idle < Scale
    /\ sheap[what_if].production_idle % Scale # 0

\* C24: the engine was constructed with use_steps = True (as every engine
\* of SpecTwin and SpecStep is); after a do_next_step the ActionSet get_last_actions() returns has stepping
\* enabled, and each stepped field is a whole number of steps above its
\* offset.
C24_SteppingKeptForRun ==
    (op = "get_last_actions" /\ steps >= 1)
        => /\ aheap[actions].use_steps
           /\ \A f \in OffsetFields :
                (aheap[actions][f] - Offsets(aheap[actions])[f]) % StepOf(f) = 0

\* the last actions returned after a step with an ActionSet constructed with
\* use_steps = False and worker_benefits 55: stepping is disabled
C24_Witness ==
    /\ op = "get_last_actions"
    /\ steps = 1
    /\ ~aheap[actions].use_steps
    /\ aheap[actions].worker_benefits = 55
    /\ aheap[actions].advertising = 2850
    /\ Offsets(aheap[actions]).worker_benefits = 0

\* C25: after Reset the simulation is in its initial condition: the state
\* is the default state at turn 1, the actions of the window are the
\* default actions, the engine is not finished.
C25_ResetRestoresInitial ==
    op = "reset_simulation"
        => /\ ~raised
           /\ Turn = 1
           /\ sheap[current_state] = Tailorshop_State(StateDefaults)
           /\ aheap[actions] = Controllable_Variables(Defaults)
           /\ aheap[last_actions] = Controllable_Variables(Defaults)
           /\ ~is_finished(sheap, current_state)

\* Reset was pressed on the finished simulation: the call has raised, the
\* engine is still at turn 14 with the state of the run
C25_Witness ==
    /\ op = "reset_simulation"
    /\ raised
    /\ steps = 13
    /\ Turn = 14
    /\ is_finished(sheap, current_state)
    /\ sheap[current_state] # Tailorshop_State(StateDefaults)

\* a step from the current state with the driver's actions as it is after
\* line 425, before the values are rounded: the heap, the address of
\* new_state and the local actual_production
Unrounded ==
    step_sales(
     step_production(
      step_satisfaction(
       step_machine_capacity(
        step_new_state(clone_state(sheap, current_state,
                                   {current_state, what_if})),
        aheap[actions], current_state),
       aheap[actions], current_state),
      aheap[actions], current_state),
     aheap[actions], current_state)

\* C26: in a transition, before rounding, the actual production is at most
\* the available material (it is the smaller of material and capacity), the
\* shirt sales are at most the shirts available, material left plus
\* production is the available material, shirts left plus sales are the
\* shirts available; the state returned holds these values rounded.
C26_StockConserved ==
    (op = "calculate_step" /\ what_if # None)
        => LET c == Unrounded
               new == c.heap[c.new_state]
               shirts == sheap[current_state].shirt_stock + c.actual_production
           IN  /\ c.actual_production = Min(AvailableMaterial, Capacity)
               /\ c.actual_production <= AvailableMaterial
               /\ new.shirt_sales <= shirts
               /\ new.material_stock + c.actual_production = AvailableMaterial
               /\ new.shirt_stock + new.shirt_sales = shirts
               /\ sheap[what_if].material_stock = round(new.material_stock)
               /\ sheap[what_if].shirt_stock = round(new.shirt_stock)
               /\ sheap[what_if].shirt_sales = round(new.shirt_sales)

\* a step with a negative production capacity: machine_capacity 0, no
\* maintenance and negative noise; the production is negative, the material
\* stock grows by it and the shirts shrink by it
C26_Witness ==
    /\ op = "calculate_step"
    /\ what_if # None
    /\ Capacity < 0
    /\ Unrounded.actual_production = Capacity
    /\ sheap[what_if].material_stock > AvailableMaterial
    /\ sheap[current_state].shirt_stock > 0
    /\ sheap[what_if].shirt_sales > 0

\* the four noise tables of the engine
NoiseTables ==
    {rnd_machines_50, rnd_machines_100, rnd_customer_interest,
     rnd_material_price}

\* C27: when calculate_step computes a new state, the index turn - 1 it
\* uses on each noise table lies between 0 and length - 2, so the last
\* entry of a table is never read.
C27_NoiseIndexInRange ==
    (op = "calculate_step" /\ what_if # None)
        => \A table \in NoiseTables :
             /\ 0 <= Turn - 1
             /\ Turn - 1 <= Len(table) - 2
             /\ PyIndex(table, Turn - 1) # table[Len(table)]

\* a what-if step of an engine constructed with a state of turn 0: the index
\* is -1, and the new material price is the last entry of its table, rounded
C27_Witness ==
    /\ op = "calculate_step"
    /\ what_if # None
    /\ Turn = 0
    /\ steps = 0
    /\ sheap[what_if].turn = 1
    /\ sheap[what_if].material_price
         = round(rnd_material_price[Len(rnd_material_price)])
    /\ sheap[what_if].customer_interest
         = round(customer_interest(aheap[actions], sheap[current_state]))
    /\ PyIndex(rnd_customer_interest, Turn - 1)
         = rnd_customer_interest[Len(rnd_customer_interest)]

\* the turn of the state the engine was constructed with: each successful
\* step adds one to both the turn and the count of steps
InitialTurn == Turn - steps

\* C28: for an engine constructed at a turn t0 >= 1, is_finished() is true
\* exactly when max(0, 14 - t0) or more steps have succeeded; no operation
\* lowers the turn, changes it other than by a counted step, or ends the
\* finished condition; and with a caller that keeps calling do_next_step the
\* engine becomes finished and stays so.
C28_RunEndsAndStaysEnded ==
    /\ [](InitialTurn >= 1
            => (is_finished(sheap, current_state)
                  <=> steps >= Max(0, Horizon - InitialTurn)))
    /\ [][/\ Turn' - steps' = Turn - steps
          /\ steps' \in {steps, steps + 1}
          /\ is_finished(sheap, current_state)
                => /\ is_finished(sheap', current_state')
                   /\ sheap'[current_state'] = sheap[current_state]]_vars
    /\ <>[](is_finished(sheap, current_state))

\* an engine constructed at turn 12 has become finished with its second
\* step; a third do_next_step has raised and it is still finished
C28_Witness ==
    /\ op = "do_next_step"
    /\ raised
    /\ steps = 2
    /\ InitialTurn = 12
    /\ is_finished(sheap, current_state)

=============================================================================
